---------------------------- MODULE Spec2Model ----------------------------
(***************************************************************************)
(* A model of the process supervisor of src/watcher.py (ProcessWatcher)    *)
(* and of the control surface of src/api.py that drives it.                *)
(*                                                                         *)
(* The registry (processes, running_processes, stopped_processes), the     *)
(* PID files and the OS process table are the state.  The control calls    *)
(* (start, stop, restart, reload, status listing) are one action per       *)
(* handler; restart is two actions because it sleeps, without the lock,    *)
(* between its stop and its start.  The monitor thread holds the lock for  *)
(* a whole tick and handles one spec per step; the OS may end a process or *)
(* start an unrelated one between any two steps.                           *)
(*                                                                         *)
(* Text (command lines, paths, match strings) is a tuple of one-character  *)
(* strings, so that joining, substring search, path normalisation and case *)
(* folding are computed, not assumed.                                      *)
(***************************************************************************)
EXTENDS Integers, Sequences, FiniteSets, TLC

\* Size of the OS PID space of the model: the PIDs are 1..MaxPid.
MaxPid == 2

\* Python's None where the code holds Optional[int] (no PID).
None == 0

Pids == 1..MaxPid

-----------------------------------------------------------------------------
(* Text                                                                    *)

\* " ".join(cmdline)
RECURSIVE Join(_)
Join(args) ==
    IF Len(args) = 0 THEN << >>
    ELSE IF Len(args) = 1 THEN args[1]
    ELSE args[1] \o <<" ">> \o Join(Tail(args))

\* match_string in full_cmd
Contains(sub, s) ==
    \E i \in 0..(Len(s) - Len(sub)) : SubSeq(s, i + 1, i + Len(sub)) = sub

LowerChar(c) ==
    CASE c = "W" -> "w"
      [] c = "S" -> "s"
      [] c = "V" -> "v"
      [] OTHER   -> c

\* str.lower()
Lower(t) == [i \in DOMAIN t |-> LowerChar(t[i])]

\* The components of a path: the runs of characters between slashes.
RECURSIVE SplitSlash(_, _)
SplitSlash(t, cur) ==
    IF Len(t) = 0 THEN <<cur>>
    ELSE IF t[1] = "/" THEN <<cur>> \o SplitSlash(Tail(t), << >>)
    ELSE SplitSlash(Tail(t), Append(cur, t[1]))

RECURSIVE JoinSlash(_)
JoinSlash(comps) ==
    IF Len(comps) = 0 THEN << >>
    ELSE IF Len(comps) = 1 THEN comps[1]
    ELSE comps[1] \o <<"/">> \o JoinSlash(Tail(comps))

\* The number of slashes a path starts with.
RECURSIVE LeadingSlashes(_)
LeadingSlashes(t) ==
    IF Len(t) = 0 \/ t[1] # "/" THEN 0 ELSE 1 + LeadingSlashes(Tail(t))

\* os.path.normpath (POSIX): empty and "." components dropped, runs of
\* slashes collapsed, no trailing slash, exactly two leading slashes kept.
\* The paths of the model hold no ".." component.
NormPath(t) ==
    LET lead  == LeadingSlashes(t)
        pre   == IF lead = 0 THEN << >>
                 ELSE IF lead = 2 THEN <<"/", "/">> ELSE <<"/">>
        comps == SelectSeq(SplitSlash(t, << >>),
                           LAMBDA c : c # << >> /\ c # <<".">>)
        path  == pre \o JoinSlash(comps)
    IN  IF path = << >> THEN <<".">> ELSE path

\* The paths the configurations and the processes of the model hold.
Paths == { << >>, <<"/", "s">>, <<"/", "w">>, <<"/", ".", "/", "W">> }

\* os.path.normpath(path).lower(), tabulated over Paths.
NormLower == [t \in Paths |-> Lower(NormPath(t))]

\* os.path.normpath(executable_path).lower() == os.path.normpath(exe).lower()
SameExe(executable_path, exe) == NormLower[executable_path] = NormLower[exe]

-----------------------------------------------------------------------------
(* Configurations                                                          *)

\* A spec is a record; an optional field that is not set is not in its
\* domain, as a key is not in the JSON object.
Has(config, key) == key \in DOMAIN config

\* config.get(key, default)
Get(config, key, default) == IF Has(config, key) THEN config[key] ELSE default

\* The configurations config.json holds over time.  "p" has a PID file
\* and an executable path; "m" is found by its command line only.
\* In ConfigA both are started through a wrapper: the process spawned for
\* "p" is the shell /s, not the binary /w the spec names (written "/./W"),
\* and the one spawned for "m" runs "/w", not the worker "s w" its spec
\* matches (the match string is " w").  ConfigB drops "m"; its "p" is disabled and runs /w itself.
SpecPA == [name |-> "p", command |-> << <<"s">>, <<"w">> >>,
           pid_file |-> "p.pid", executable_path |-> <<"/", ".", "/", "W">>]
SpecMA == [name |-> "m", command |-> << <<"/", "w">> >>,
           process_match |-> <<" ", "w">>]
SpecPB == [name |-> "p", command |-> << <<"/", "w">> >>,
           pid_file |-> "p.pid", executable_path |-> <<"/", ".", "/", "W">>,
           enabled |-> FALSE]

ConfigA == <<SpecPA, SpecMA>>
ConfigB == <<SpecPB>>
Configs == {ConfigA, ConfigB}

Names == {"m", "p"}
PidFiles == {"p.pid"}

-----------------------------------------------------------------------------
(* The OS                                                                  *)

\* No process has the PID.
NoProc == [exe |-> << >>, cmdline |-> << >>]

\* The binary the OS runs for argv[0]: a bare name is looked up on PATH.
ExeOf(arg0) == IF arg0[1] = "/" THEN arg0 ELSE <<"/">> \o arg0

\* The process subprocess.Popen(cmd) creates.
Spawned(config) ==
    [exe |-> ExeOf(config.command[1]), cmdline |-> config.command]

\* Processes somebody else may start: the worker "s w" and the binary /w.
Foreign == { [exe |-> <<"/", "s">>, cmdline |-> << <<"s">>, <<"w">> >>],
             [exe |-> <<"/", "w">>, cmdline |-> << <<"/", "w">> >>] }

VARIABLES
    processes,          \* self.processes: the spec list
    running_processes,  \* self.running_processes: name -> PID launched
    stopped_processes,  \* self.stopped_processes: names stopped by hand
    lock_owner,         \* self.lock: "none" or the thread that holds it
    mon_i,              \* monitor thread: specs of the tick done (0: asleep)
    restarting,         \* the name a restart is stopping and starting, or ""
    procs,              \* OS process table: PID -> process or NoProc
    files,              \* PID files: path -> PID written (None: no file)
    last                \* the operation that made the latest step

vars == <<processes, running_processes, stopped_processes, lock_owner, mon_i,
          restarting, procs, files, last>>


-----------------------------------------------------------------------------
(* Identity resolver                                                       *)

\* psutil.pid_exists(pid)
pid_exists(pt, pid) == pid \in Pids /\ pt[pid] # NoProc

\* The smallest element of a non-empty set of PIDs.
MinPid(S) == CHOOSE p \in S : \A q \in S : p <= q

\* check_pid_file without the comparison of the executable path.
check_pid_file_NoExeCheck(pt, fs, pid_file, match_string, executable_path) ==
    LET pid == fs[pid_file] IN
    IF pid = None THEN None
    ELSE IF ~pid_exists(pt, pid) THEN None
    ELSE IF match_string # << >>
            /\ (pt[pid].cmdline = << >>
                \/ ~Contains(match_string, Join(pt[pid].cmdline)))
         THEN None
    ELSE pid

\* check_pid_file(pid_file, match_string, executable_path): the PID in the
\* file when it is alive and passes each check that is set, else None.
\* A check that is not set is the empty text (falsy, as None is).
check_pid_file(pt, fs, pid_file, match_string, executable_path) ==
    LET pid == fs[pid_file] IN
    IF pid = None THEN None
    ELSE IF ~pid_exists(pt, pid) THEN None
    ELSE IF executable_path # << >>
            /\ (pt[pid].exe = << >> \/ ~SameExe(executable_path, pt[pid].exe))
         THEN None
    ELSE IF match_string # << >>
            /\ (pt[pid].cmdline = << >>
                \/ ~Contains(match_string, Join(pt[pid].cmdline)))
         THEN None
    ELSE pid

\* ScanHit with the command line compared for equality, not searched.
ScanHit_ExactMatch(proc, match_string, executable_path) ==
    \/ /\ executable_path # << >>
       /\ proc.exe # << >>
       /\ SameExe(executable_path, proc.exe)
    \/ /\ match_string # << >>
       /\ proc.cmdline # << >>
       /\ match_string = Join(proc.cmdline)

\* One iteration of the scan of find_process_by_match: does the process
\* pass the executable test or, failing that, the command-line test?
ScanHit(proc, match_string, executable_path) ==
    \/ /\ executable_path # << >>
       /\ proc.exe # << >>
       /\ SameExe(executable_path, proc.exe)
    \/ /\ match_string # << >>
       /\ proc.cmdline # << >>
       /\ Contains(match_string, Join(proc.cmdline))

\* find_process_by_match(match_string, executable_path): the first process
\* of psutil.process_iter (ascending PID) that the scan accepts.
find_process_by_match(pt, match_string, executable_path) ==
    LET hits == {pid \in Pids : pid_exists(pt, pid)
                                /\ ScanHit(pt[pid], match_string, executable_path)}
    IN  IF hits = {} THEN None ELSE MinPid(hits)

\* get_config_by_name(name): the first spec of that name; the empty record
\* (falsy, as None is) when there is none.
get_config_by_name(specs, name) ==
    LET idx == {i \in DOMAIN specs : specs[i].name = name}
    IN  IF idx = {} THEN << >> ELSE specs[MinPid(idx)]

NoConfig(config) == DOMAIN config = {}

\* The lookup is_running and stop_process share: PID file, then scan by
\* match string, then scan by executable alone.
Lookup(pt, fs, config) ==
    LET pid1 == IF Has(config, "pid_file")
                THEN check_pid_file(pt, fs, config.pid_file,
                                    Get(config, "process_match", << >>),
                                    Get(config, "executable_path", << >>))
                ELSE None
        pid2 == IF pid1 = None /\ Has(config, "process_match")
                THEN find_process_by_match(pt, config.process_match,
                                           Get(config, "executable_path", << >>))
                ELSE pid1
        pid3 == IF pid2 = None /\ Has(config, "executable_path")
                   /\ ~Has(config, "process_match")
                THEN find_process_by_match(pt, << >>, config.executable_path)
                ELSE pid2
    IN  pid3

\* The dict self.running_processes is a function on Names whose value is
\* None for a name that is not a key.
\* name in self.running_processes
Tracked(rp, name) == rp[name] # None

\* del self.running_processes[name]
Del(rp, name) == [rp EXCEPT ![name] = None]

\* self.running_processes[name] = pid
Put(rp, name, pid) == [rp EXCEPT ![name] = pid]

\* is_running(name), its side effect: the tracked PID is dropped when dead.
is_running_map(pt, rp, name) ==
    IF Tracked(rp, name) /\ ~pid_exists(pt, rp[name]) THEN Del(rp, name) ELSE rp

\* is_running(name), its result.
is_running(specs, pt, fs, rp, name) ==
    IF Tracked(rp, name) /\ pid_exists(pt, rp[name]) THEN TRUE
    ELSE LET config == get_config_by_name(specs, name) IN
         IF NoConfig(config) THEN FALSE
         ELSE Lookup(pt, fs, config) # None

-----------------------------------------------------------------------------
(* Lifecycle controller: what each handler computes from the state         *)

\* How the termination of one candidate can end: terminated or killed,
\* psutil.AccessDenied, or another exception.
KillOutcomes == {"killed", "denied", "error"}

\* What a handler returns, the PID of the process it spawned (None: it
\* spawned nothing), and the part of the state it reads and writes.
Result(ret, spawned, rp, sp, pt, fs) ==
    [ret |-> ret, spawned |-> spawned,
     running |-> rp, stopped |-> sp, procs |-> pt, files |-> fs]

\* The PIDs the OS can give a new process.
FreePids(pt) == {pid \in Pids : pt[pid] = NoProc}

\* What the OS can answer to a launch: the spawn fails and there is no
\* PID, or the new process gets a free PID (and the PID file, when there
\* is one to write, is written or not).
StartInputs(pt) ==
    {<<"spawn_fail", None>>} \cup ({"ok", "pidfile_fail"} \X FreePids(pt))

\* start_process without the early return for a process that is running.
start_process_AlwaysSpawns(specs, rp, sp, pt, fs, name, outcome, pid) ==
    LET rp1    == is_running_map(pt, rp, name)
        sp1    == sp \ {name}
        config == get_config_by_name(specs, name)
    IN  IF NoConfig(config) THEN Result(FALSE, None, rp1, sp1, pt, fs)
        ELSE IF outcome = "spawn_fail" THEN Result(FALSE, None, rp1, sp1, pt, fs)
        ELSE Result(TRUE, pid, Put(rp1, name, pid), sp1,
                    [pt EXCEPT ![pid] = Spawned(config)], fs)

\* start_process(name).  outcome and pid are the OS's answer.
start_process(specs, rp, sp, pt, fs, name, outcome, pid) ==
    LET rp1    == is_running_map(pt, rp, name)
        sp1    == sp \ {name}
        config == get_config_by_name(specs, name)
    IN  IF is_running(specs, pt, fs, rp, name)
        THEN Result(TRUE, None, rp1, sp, pt, fs)
        ELSE IF NoConfig(config) THEN Result(FALSE, None, rp1, sp1, pt, fs)
        ELSE IF outcome = "spawn_fail" THEN Result(FALSE, None, rp1, sp1, pt, fs)
        ELSE LET pt1 == [pt EXCEPT ![pid] = Spawned(config)]
                 rp2 == Put(rp1, name, pid)
             IN  IF ~Has(config, "pid_file")
                 THEN Result(TRUE, pid, rp2, sp1, pt1, fs)
                 ELSE IF outcome = "pidfile_fail"
                      THEN Result(FALSE, pid, rp2, sp1, pt1, fs)
                 ELSE Result(TRUE, pid, rp2, sp1, pt1,
                             [fs EXCEPT ![config.pid_file] = pid])

\* The candidates of stop_process(name): the tracked PID and the PID a
\* fresh lookup finds, as a set.
pids_to_kill(specs, rp, pt, fs, name) ==
    LET config == get_config_by_name(specs, name)
        found  == IF NoConfig(config) THEN None ELSE Lookup(pt, fs, config)
    IN  (IF Tracked(rp, name) THEN {rp[name]} ELSE {})
        \cup (IF found # None THEN {found} ELSE {})

\* What the OS can answer to the terminations of the candidates: a PID
\* that no longer exists raises NoSuchProcess ("gone"), a live one ends in
\* one of the KillOutcomes.
KillInputs(pt, cands) ==
    {kill \in [cands -> KillOutcomes \cup {"gone"}] :
        \A pid \in cands : kill[pid] = "gone" <=> ~pid_exists(pt, pid)}

\* The loop of stop_process over one candidate: did it count as a success?
\* A PID that no longer exists raises NoSuchProcess, which counts.
KillSuccess(pt, pid, kill) == ~pid_exists(pt, pid) \/ kill[pid] # "error"

\* The answers of the OS a call start_process(name) can read: none but the
\* first when the call returns before the launch (the name is running, or
\* has no spec), and none about the PID file when the spec has no pid_file.
StartInputsFor(specs, rp, pt, fs, name) ==
    LET config == get_config_by_name(specs, name) IN
    IF is_running(specs, pt, fs, rp, name) \/ NoConfig(config)
    THEN {<<"spawn_fail", None>>}
    ELSE IF Has(config, "pid_file") THEN StartInputs(pt)
    ELSE {in \in StartInputs(pt) : in[1] # "pidfile_fail"}

\* stop_process with a loop that ends at the first termination that fails.
stop_process_StopsAtFirstFailure(specs, rp, sp, pt, fs, name, kill) ==
    LET cands == pids_to_kill(specs, rp, pt, fs, name)
        rp1   == IF Tracked(rp, name) THEN Del(rp, name) ELSE rp
        sp1   == sp \cup {name}
        done  == {pid \in cands :
                    \A q \in cands : q < pid => kill[q] \in {"killed", "gone"}}
        pt1   == [pid \in Pids |->
                    IF pid \in done /\ kill[pid] = "killed" THEN NoProc
                    ELSE pt[pid]]
    IN  IF cands = {} THEN Result(FALSE, None, rp1, sp1, pt, fs)
        ELSE Result(\E pid \in done : KillSuccess(pt, pid, kill),
                    None, rp1, sp1, pt1, fs)

\* stop_process clearing the PID file of the spec.
stop_process_RemovesPidFile(specs, rp, sp, pt, fs, name, kill) ==
    LET cands  == pids_to_kill(specs, rp, pt, fs, name)
        config == get_config_by_name(specs, name)
        rp1    == IF Tracked(rp, name) THEN Del(rp, name) ELSE rp
        sp1    == sp \cup {name}
        pt1    == [pid \in Pids |->
                     IF pid \in cands /\ kill[pid] = "killed" THEN NoProc
                     ELSE pt[pid]]
        fs1    == IF Has(config, "pid_file")
                  THEN [fs EXCEPT ![config.pid_file] = None]
                  ELSE fs
    IN  IF cands = {} THEN Result(FALSE, None, rp1, sp1, pt, fs)
        ELSE Result(\E pid \in cands : KillSuccess(pt, pid, kill),
                    None, rp1, sp1, pt1, fs1)

\* stop_process returning false at once for a name that has no spec.
stop_process_NeedsConfig(specs, rp, sp, pt, fs, name, kill) ==
    LET cands == pids_to_kill(specs, rp, pt, fs, name)
        rp1   == IF Tracked(rp, name) THEN Del(rp, name) ELSE rp
        sp1   == sp \cup {name}
        pt1   == [pid \in Pids |->
                    IF pid \in cands /\ kill[pid] = "killed" THEN NoProc
                    ELSE pt[pid]]
    IN  IF NoConfig(get_config_by_name(specs, name))
        THEN Result(FALSE, None, rp, sp, pt, fs)
        ELSE IF cands = {} THEN Result(FALSE, None, rp1, sp1, pt, fs)
        ELSE Result(\E pid \in cands : KillSuccess(pt, pid, kill),
                    None, rp1, sp1, pt1, fs)

\* stop_process(name).  kill gives, for each PID, how its termination ends.
stop_process(specs, rp, sp, pt, fs, name, kill) ==
    LET cands == pids_to_kill(specs, rp, pt, fs, name)
        rp1   == IF Tracked(rp, name) THEN Del(rp, name) ELSE rp
        sp1   == sp \cup {name}
        pt1   == [pid \in Pids |->
                    IF pid \in cands /\ kill[pid] = "killed" THEN NoProc
                    ELSE pt[pid]]
    IN  IF cands = {} THEN Result(FALSE, None, rp1, sp1, pt, fs)
        ELSE Result(\E pid \in cands : KillSuccess(pt, pid, kill),
                    None, rp1, sp1, pt1, fs)

\* StatusOf with the manual flag tested before the liveness.
StatusOf_ManualFirst(specs, rp, sp, pt, fs, name) ==
    IF name \in sp THEN "Stopped (Manual)"
    ELSE IF is_running(specs, pt, fs, rp, name) THEN "Running"
    ELSE "Stopped"

\* One entry of get_all_statuses.
StatusOf(specs, rp, sp, pt, fs, name) ==
    IF is_running(specs, pt, fs, rp, name) THEN "Running"
    ELSE IF name \in sp THEN "Stopped (Manual)"
    ELSE "Stopped"

\* The dict get_all_statuses builds, as the sequence of its items: an
\* entry is added at the end, or overwritten in place when the name is
\* already a key.
DictSet(items, name, value) ==
    IF \E i \in DOMAIN items : items[i][1] = name
    THEN [i \in DOMAIN items |->
            IF items[i][1] = name THEN <<name, value>> ELSE items[i]]
    ELSE Append(items, <<name, value>>)

\* get_all_statuses(): the loop over the specs from index i on, with the
\* tracked PIDs as is_running leaves them.  Its result is the items and
\* the map of tracked PIDs at the end.
RECURSIVE get_all_statuses(_, _, _, _, _, _, _)
get_all_statuses(specs, rp, sp, pt, fs, i, items) ==
    IF i > Len(specs) THEN [statuses |-> items, running |-> rp]
    ELSE LET name == specs[i].name IN
         get_all_statuses(specs, is_running_map(pt, rp, name), sp, pt, fs, i + 1,
                          DictSet(items, name, StatusOf(specs, rp, sp, pt, fs, name)))

\* MonitorVerdict without the test of the enabled flag.
MonitorVerdict_IgnoresEnabled(specs, rp, sp, pt, fs, p_config) ==
    IF p_config.name \in sp THEN "skip"
    ELSE IF is_running(specs, pt, fs, rp, p_config.name) THEN "up"
    ELSE "start"

\* MonitorVerdict without the test of the manually-stopped set.
MonitorVerdict_IgnoresStopped(specs, rp, sp, pt, fs, p_config) ==
    IF ~Get(p_config, "enabled", TRUE) THEN "skip"
    ELSE IF is_running(specs, pt, fs, rp, p_config.name) THEN "up"
    ELSE "start"

\* What the monitor loop does with one spec: "skip" (disabled or stopped
\* by hand), "up" (found running) or "start" (down: start_process).
MonitorVerdict(specs, rp, sp, pt, fs, p_config) ==
    IF ~Get(p_config, "enabled", TRUE) THEN "skip"
    ELSE IF p_config.name \in sp THEN "skip"
    ELSE IF is_running(specs, pt, fs, rp, p_config.name) THEN "up"
    ELSE "start"

-----------------------------------------------------------------------------
(* The state machine                                                       *)

\* How the terminations of a stop_process call ended, PID by PID ("none":
\* the PID was no candidate).
KillLog(cands, kill) ==
    [pid \in Pids |-> IF pid \in cands THEN kill[pid] ELSE "none"]

\* The operation that made the latest step: its name, the process name it
\* was called with, what it returned, the PID of the process it spawned
\* (None: it spawned nothing), the listing a status call gave and how the
\* terminations of a stop call ended.
Op(op, name, ret) ==
    [op |-> op, name |-> name, ret |-> ret, spawned |-> None, statuses |-> << >>,
     kill |-> KillLog({}, << >>)]

\* The same for a call of start_process or stop_process with result r.
OpOf(op, name, r) == [Op(op, name, r.ret) EXCEPT !.spawned = r.spawned]

registry == <<processes, running_processes, stopped_processes>>

Init ==
    /\ processes = ConfigA
    /\ running_processes = [n \in Names |-> None]
    /\ stopped_processes = {}
    /\ lock_owner = "none"
    /\ mon_i = 0
    /\ restarting = ""
    /\ procs = [pid \in Pids |-> NoProc]
    /\ files = [f \in PidFiles |-> None]
    /\ last = Op("init", "", TRUE)

\* A handler's result written to the state.
Apply(r) ==
    /\ running_processes' = r.running
    /\ stopped_processes' = r.stopped
    /\ procs' = r.procs
    /\ files' = r.files

\* POST /processes/{name}/start
ApiStart(name) ==
    /\ lock_owner = "none"
    /\ \E in \in StartInputsFor(processes, running_processes, procs, files, name) :
         LET r == start_process(processes, running_processes, stopped_processes,
                                procs, files, name, in[1], in[2])
         IN  Apply(r) /\ last' = OpOf("start", name, r)
    /\ UNCHANGED <<processes, lock_owner, mon_i, restarting>>

\* POST /processes/{name}/stop
ApiStop(name) ==
    /\ lock_owner = "none"
    /\ \E kill \in KillInputs(procs, pids_to_kill(processes, running_processes,
                                                  procs, files, name)) :
         LET r == stop_process(processes, running_processes, stopped_processes,
                               procs, files, name, kill)
         IN  /\ Apply(r)
             /\ last' = [OpOf("stop", name, r) EXCEPT
                           !.kill = KillLog(DOMAIN kill, kill)]
    /\ UNCHANGED <<processes, lock_owner, mon_i, restarting>>

\* RestartStop with a restart that ends when stop_process returns false.
RestartStop_GivesUpOnFalse(name) ==
    /\ lock_owner = "none"
    /\ restarting = ""
    /\ \E kill \in KillInputs(procs, pids_to_kill(processes, running_processes,
                                                  procs, files, name)) :
         LET r == stop_process(processes, running_processes, stopped_processes,
                               procs, files, name, kill)
         IN  /\ Apply(r)
             /\ last' = [OpOf("restart_stop", name, r) EXCEPT
                           !.kill = KillLog(DOMAIN kill, kill)]
             /\ restarting' = IF r.ret THEN name ELSE ""
    /\ UNCHANGED <<processes, lock_owner, mon_i>>

\* POST /processes/{name}/restart, first half: stop_process, then the
\* handler sleeps with the lock released.
RestartStop(name) ==
    /\ lock_owner = "none"
    /\ restarting = ""
    /\ \E kill \in KillInputs(procs, pids_to_kill(processes, running_processes,
                                                  procs, files, name)) :
         LET r == stop_process(processes, running_processes, stopped_processes,
                               procs, files, name, kill)
         IN  /\ Apply(r)
             /\ last' = [OpOf("restart_stop", name, r) EXCEPT
                           !.kill = KillLog(DOMAIN kill, kill)]
    /\ restarting' = name
    /\ UNCHANGED <<processes, lock_owner, mon_i>>

\* POST /processes/{name}/restart, second half: start_process, whose
\* result the handler returns.
RestartStart(name) ==
    /\ lock_owner = "none"
    /\ restarting = name
    /\ \E in \in StartInputsFor(processes, running_processes, procs, files, name) :
         LET r == start_process(processes, running_processes, stopped_processes,
                                procs, files, name, in[1], in[2])
         IN  Apply(r) /\ last' = OpOf("restart_start", name, r)
    /\ restarting' = ""
    /\ UNCHANGED <<processes, lock_owner, mon_i>>

\* Reload with the new specs written over the old list entry by entry.
Reload_InPlace ==
    /\ lock_owner = "none"
    /\ \/ \E new_config \in Configs :
            /\ processes' = [i \in DOMAIN processes |->
                               IF i \in DOMAIN new_config THEN new_config[i]
                               ELSE processes[i]]
            /\ last' = Op("reload", "", TRUE)
       \/ /\ processes' = processes
          /\ last' = Op("reload", "", FALSE)
    /\ UNCHANGED <<running_processes, stopped_processes, lock_owner, mon_i,
                   restarting, procs, files>>

\* POST /config/reload: load_config.  A missing or malformed file leaves
\* the specs as they are.
Reload ==
    /\ lock_owner = "none"
    /\ \/ \E new_config \in Configs :
            /\ processes' = new_config
            /\ last' = Op("reload", "", TRUE)
       \/ /\ processes' = processes
          /\ last' = Op("reload", "", FALSE)
    /\ UNCHANGED <<running_processes, stopped_processes, lock_owner, mon_i,
                   restarting, procs, files>>

\* GET /processes: get_all_statuses, which takes no lock.
ListProcesses ==
    /\ LET r == get_all_statuses(processes, running_processes, stopped_processes,
                                 procs, files, 1, << >>)
       IN  /\ running_processes' = r.running
           /\ last' = [Op("list", "", TRUE) EXCEPT !.statuses = r.statuses]
    /\ UNCHANGED <<processes, stopped_processes, lock_owner, mon_i, restarting,
                   procs, files>>

\* MonitorStep with a lock that is not re-entrant: start_process, called
\* by the thread that holds the lock, waits for it for ever.
MonitorStep_LockNotReentrant ==
    /\ IF mon_i = 0 THEN lock_owner = "none" ELSE lock_owner = "monitor"
    /\ mon_i < Len(processes)
    /\ LET p_config == processes[mon_i + 1]
           name     == p_config.name
           verdict  == MonitorVerdict(processes, running_processes,
                                      stopped_processes, procs, files, p_config)
       IN  \/ /\ verdict = "skip"
              /\ last' = Op("mon_skip", name, TRUE)
              /\ UNCHANGED <<running_processes, stopped_processes, procs, files>>
           \/ /\ verdict = "up"
              /\ running_processes' = is_running_map(procs, running_processes, name)
              /\ last' = Op("mon_up", name, TRUE)
              /\ UNCHANGED <<stopped_processes, procs, files>>
    /\ IF mon_i + 1 = Len(processes)
       THEN lock_owner' = "none" /\ mon_i' = 0
       ELSE lock_owner' = "monitor" /\ mon_i' = mon_i + 1
    /\ UNCHANGED <<processes, restarting>>

\* monitor_loop: the body of the for loop for the next spec of the tick.
\* The step for the first spec of a tick takes the lock, the step for the
\* last one releases it (and the thread sleeps until the next tick).
MonitorStep ==
    /\ IF mon_i = 0 THEN lock_owner = "none" ELSE lock_owner = "monitor"
    /\ mon_i < Len(processes)
    /\ LET p_config == processes[mon_i + 1]
           name     == p_config.name
           verdict  == MonitorVerdict(processes, running_processes,
                                      stopped_processes, procs, files, p_config)
       IN  \/ /\ verdict = "skip"
              /\ last' = Op("mon_skip", name, TRUE)
              /\ UNCHANGED <<running_processes, stopped_processes, procs, files>>
           \/ /\ verdict = "up"
              /\ running_processes' = is_running_map(procs, running_processes, name)
              /\ last' = Op("mon_up", name, TRUE)
              /\ UNCHANGED <<stopped_processes, procs, files>>
           \/ /\ verdict = "start"
              /\ \E in \in StartInputsFor(processes, running_processes, procs,
                                             files, name) :
                   LET r == start_process(processes,
                                          is_running_map(procs, running_processes, name),
                                          stopped_processes, procs, files,
                                          name, in[1], in[2])
                   IN  Apply(r) /\ last' = OpOf("mon_start", name, r)
    /\ IF mon_i + 1 = Len(processes)
       THEN lock_owner' = "none" /\ mon_i' = 0
       ELSE lock_owner' = "monitor" /\ mon_i' = mon_i + 1
    /\ UNCHANGED <<processes, restarting>>

\* The OS: a process ends.
OsExit(pid) ==
    /\ procs[pid] # NoProc
    /\ procs' = [procs EXCEPT ![pid] = NoProc]
    /\ last' = Op("os", "", TRUE)
    /\ UNCHANGED <<processes, running_processes, stopped_processes, lock_owner,
                   mon_i, restarting, files>>

\* The OS: somebody else starts a process, which gets a free PID.
OsSpawn(pid) ==
    /\ procs[pid] = NoProc
    /\ \E proc \in Foreign : procs' = [procs EXCEPT ![pid] = proc]
    /\ last' = [Op("os", "", TRUE) EXCEPT !.spawned = pid]
    /\ UNCHANGED <<processes, running_processes, stopped_processes, lock_owner,
                   mon_i, restarting, files>>

Next ==
    \/ \E name \in Names : ApiStart(name)
    \/ \E name \in Names : ApiStop(name)
    \/ \E name \in Names : RestartStop(name)
    \/ \E name \in Names : RestartStart(name)
    \/ Reload
    \/ ListProcesses
    \/ MonitorStep
    \/ \E pid \in Pids : OsExit(pid)
    \/ \E pid \in Pids : OsSpawn(pid)

Spec == Init /\ [][Next]_vars

\* The value of mon_i when the monitor thread has ended.
Ended == 0 - 1

\* GET /processes while the monitor thread is in is_running for a name
\* whose recorded PID is dead.  get_all_statuses takes no lock, so both
\* threads can pass the test "name in self.running_processes" before either
\* deletes the entry; here the listing deletes first and the del of the
\* monitor thread raises KeyError, which nothing in monitor_loop catches:
\* the thread ends (the with statement releases the lock).  The listing
\* runs to its end.
ListProcessesRace ==
    /\ mon_i >= 0
    /\ IF mon_i = 0 THEN lock_owner = "none" ELSE lock_owner = "monitor"
    /\ mon_i < Len(processes)
    /\ LET p_config == processes[mon_i + 1]
           name     == p_config.name
           r        == get_all_statuses(processes, running_processes,
                                        stopped_processes, procs, files, 1, << >>)
       IN  /\ Get(p_config, "enabled", TRUE)
           /\ name \notin stopped_processes
           /\ Tracked(running_processes, name)
           /\ ~pid_exists(procs, running_processes[name])
           /\ running_processes' = r.running
           /\ last' = [Op("mon_raise", name, FALSE) EXCEPT !.statuses = r.statuses]
    /\ mon_i' = Ended
    /\ lock_owner' = "none"
    /\ UNCHANGED <<processes, stopped_processes, restarting, procs, files>>

\* GET /processes while another request thread calls start_process(name)
\* for a name whose recorded PID is dead.  The listing, in is_running, has
\* found the recorded PID dead; before it deletes the entry, start_process
\* runs from its beginning to its end (it drops the dead entry itself,
\* spawns the process and records the new PID); then the del of the
\* listing removes the entry of the new process.
ListProcessesRaceStart(name) ==
    /\ lock_owner = "none"
    /\ \E i \in DOMAIN processes : processes[i].name = name
    /\ Tracked(running_processes, name)
    /\ ~pid_exists(procs, running_processes[name])
    /\ \E in \in StartInputsFor(processes, running_processes, procs, files, name) :
         LET r == start_process(processes, running_processes, stopped_processes,
                                procs, files, name, in[1], in[2])
         IN  /\ r.spawned # None
             /\ Apply([r EXCEPT !.running = Del(r.running, name)])
             /\ last' = OpOf("start_race", name, r)
    /\ UNCHANGED <<processes, lock_owner, mon_i, restarting>>

\* The program with the interleavings of the unlocked status listing.
RaceNext ==
    \/ Next
    \/ ListProcessesRace
    \/ \E name \in Names : ListProcessesRaceStart(name)

RaceSpec == Init /\ [][RaceNext]_vars

RaceFairSpec == RaceSpec /\ WF_vars(MonitorStep)

\* A thread that waits for the lock gets it: every holder releases it in
\* bounded time and the monitor thread sleeps five seconds between two
\* ticks, so the start step of a restart is not passed over for ever.
LockFairSpec ==
    /\ RaceSpec
    /\ WF_vars(MonitorStep)
    /\ \A name \in Names : SF_vars(RestartStart(name))

\* The monitor thread is a thread of its own that loops for ever: a tick
\* sleeps five seconds and takes a lock that every other holder releases in
\* bounded time, so the loop body is not postponed for ever.
FairSpec == Spec /\ WF_vars(MonitorStep)

-----------------------------------------------------------------------------
(* Vocabulary of the properties                                            *)

\* is_running(name) in the current state.
Running(name) == is_running(processes, procs, files, running_processes, name)

\* The spec of name in the current configuration (empty: none).
ConfigOf(name) == get_config_by_name(processes, name)

Configured(name) == ~NoConfig(ConfigOf(name))

\* The latest step was a call of the operation op for name.
Called(op, name) == last.op = op /\ last.name = name

\* Some live process has a command line that holds the text.
SomeCmdlineHolds(text) ==
    \E pid \in Pids : /\ procs[pid] # NoProc
                      /\ Contains(text, Join(procs[pid].cmdline))

\* Some live process runs the executable.
SomeExeIs(path) ==
    \E pid \in Pids : /\ procs[pid] # NoProc
                      /\ SameExe(path, procs[pid].exe)

\* The PID launched for name is the PID of a live process.
TrackedAlive(name) ==
    Tracked(running_processes, name) /\ pid_exists(procs, running_processes[name])

StartOps == {"start", "restart_start"}
StopOps == {"stop", "restart_stop"}
MonitorOps == {"mon_skip", "mon_up", "mon_start"}

-----------------------------------------------------------------------------
(* C1.  Every call of stop_process(name), also one that finds no process,  *)
(* leaves name in the manually-stopped set; a name leaves that set only in *)
(* a start call for it (direct, or the start of a restart); and the        *)
(* monitor loop, coming to a spec whose name is in the set, skips it and   *)
(* spawns nothing.                                                         *)
C1_StopSuppressesMonitor ==
    [][ \A n \in Names :
          /\ (last'.op \in StopOps /\ last'.name = n) => n \in stopped_processes'
          /\ (n \in stopped_processes /\ n \notin stopped_processes')
                => (last'.op \in StartOps /\ last'.name = n)
          /\ (last'.op \in MonitorOps /\ last'.name = n /\ n \in stopped_processes)
                => (last'.op = "mon_skip" /\ last'.spawned = None /\ procs' = procs)
      ]_vars

\* The monitor has just skipped an enabled spec that is down and was
\* stopped by hand.
C1_Witness ==
    \E n \in Names :
       /\ Called("mon_skip", n)
       /\ n \in stopped_processes
       /\ Get(ConfigOf(n), "enabled", TRUE)
       /\ ~Running(n)

-----------------------------------------------------------------------------
(* C2, as claimed.  A start call for a name that is running returns true,  *)
(* spawns nothing, leaves the name running (so the next call is in the     *)
(* same case) and leaves the PID recorded for the name as it was.          *)
C2_StartIdempotent_Claimed ==
    [][ \A n \in Names :
          (last'.op \in StartOps /\ last'.name = n /\ Running(n))
             => /\ last'.ret = TRUE
                /\ last'.spawned = None /\ procs' = procs
                /\ Running(n)'
                /\ running_processes'[n] = running_processes[n]
      ]_vars

(* C2, amended.  A start call for a name that is running returns true,     *)
(* spawns nothing, writes no PID file and leaves the name running.  The    *)
(* PID recorded for the name is kept when that process is alive; a         *)
(* recorded PID whose process is gone is dropped by the call (the name is  *)
(* running because the lookup found a process).  After the call the record *)
(* is stable: the next call in a row has nothing left to drop.             *)
C2_StartIdempotent ==
    [][ \A n \in Names :
          (last'.op \in StartOps /\ last'.name = n /\ Running(n))
             => /\ last'.ret = TRUE
                /\ last'.spawned = None /\ procs' = procs /\ files' = files
                /\ Running(n)'
                /\ \A k \in Names \ {n} : running_processes'[k] = running_processes[k]
                /\ IF TrackedAlive(n)
                   THEN running_processes'[n] = running_processes[n]
                   ELSE running_processes'[n] = None
                /\ is_running_map(procs', running_processes', n) = running_processes'
      ]_vars

\* A start call has returned true without spawning for a name that has no
\* recorded PID: it is running by the lookup alone.
C2_Witness ==
    \E n \in Names :
       /\ Called("start", n) /\ last.ret /\ last.spawned = None
       /\ ~Tracked(running_processes, n)
       /\ Running(n)

-----------------------------------------------------------------------------
(* C3.  After a start call for name that returned true, name is not in the *)
(* manually-stopped set.                                                   *)
C3_StartClearsManualStop ==
    \A n \in Names :
       (last.op \in StartOps /\ last.name = n /\ last.ret = TRUE)
          => n \notin stopped_processes

-----------------------------------------------------------------------------
(* C4.  A start_process call (from the control surface, a restart or the   *)
(* monitor) that returns false without having obtained a PID leaves the    *)
(* spec list, the launched map and the manually-stopped set as they were.  *)
C4_FailedStartLeavesRegistry ==
    [][ (/\ last'.op \in StartOps \cup {"mon_start"}
         /\ last'.ret = FALSE
         /\ last'.spawned = None)
           => registry' = registry
      ]_vars

-----------------------------------------------------------------------------
(* C5, as claimed.  A stop call for a name that has no spec in the current *)
(* configuration returns false.                                            *)
C5_StopUnconfigured_Claimed ==
    \A n \in Names :
       (last.op \in StopOps /\ last.name = n /\ ~Configured(n)) => last.ret = FALSE

(* C5, amended.  A stop call for a name that has no spec returns false and *)
(* ends no process when the name has no recorded PID; it can return true   *)
(* only when the name has one (left by a reload that dropped the spec),    *)
(* and then the only process it can end is that PID's.  In both cases the  *)
(* name is in the manually-stopped set and has no recorded PID afterwards. *)
C5_StopUnconfigured ==
    [][ \A n \in Names :
          (last'.op \in StopOps /\ last'.name = n /\ ~Configured(n))
             => /\ ~Tracked(running_processes, n)
                     => (last'.ret = FALSE /\ procs' = procs)
                /\ last'.ret = TRUE => Tracked(running_processes, n)
                /\ \A pid \in Pids :
                     procs'[pid] # procs[pid] => pid = running_processes[n]
                /\ n \in stopped_processes'
                /\ ~Tracked(running_processes', n)
      ]_vars

\* A stop call for a name without a spec has returned true.
C5_Witness ==
    \E n \in Names :
       /\ Called("stop", n) /\ ~Configured(n) /\ last.ret = TRUE
       /\ n \in stopped_processes

-----------------------------------------------------------------------------
\* The spec sets process_match and neither pid_file nor executable_path.
OnlyProcessMatch(c) ==
    Has(c, "process_match") /\ ~Has(c, "pid_file") /\ ~Has(c, "executable_path")

(* C6, as claimed.  For a spec with process_match only, is_running(name)   *)
(* is true exactly when some live process has a command line that holds    *)
(* the match string.                                                       *)
C6_MatchOnly_Claimed ==
    \A i \in DOMAIN processes :
       OnlyProcessMatch(processes[i])
          => (Running(processes[i].name)
                <=> SomeCmdlineHolds(processes[i].process_match))

(* C6, amended.  For a spec with process_match only, is_running(name) is   *)
(* true exactly when the PID recorded for name is the PID of a live        *)
(* process (whatever its command line) or some live process has a command  *)
(* line that holds the match string.                                       *)
C6_MatchOnly ==
    \A i \in DOMAIN processes :
       OnlyProcessMatch(processes[i])
          => (Running(processes[i].name)
                <=> (\/ TrackedAlive(processes[i].name)
                     \/ SomeCmdlineHolds(processes[i].process_match)))

\* A start call has launched the process of a process_match-only spec, the
\* name is running by its recorded PID and no command line holds the match
\* string.
C6_Witness ==
    \E i \in DOMAIN processes :
       /\ OnlyProcessMatch(processes[i])
       /\ Called("start", processes[i].name) /\ last.ret = TRUE
       /\ TrackedAlive(processes[i].name)
       /\ ~SomeCmdlineHolds(processes[i].process_match)
       /\ Running(processes[i].name)

-----------------------------------------------------------------------------
\* The PID file of the spec holds the PID of a live process whose
\* executable is not the spec's executable_path.
PidFileOfOtherExe(c) ==
    /\ Has(c, "pid_file") /\ Has(c, "executable_path")
    /\ pid_exists(procs, files[c.pid_file])
    /\ ~SameExe(c.executable_path, procs[files[c.pid_file]].exe)

(* C7, as claimed.  While the PID file of a spec holds the PID of a live   *)
(* process of another executable, is_running(name) is false.               *)
C7_PidFileRejected_Claimed ==
    \A i \in DOMAIN processes :
       PidFileOfOtherExe(processes[i]) => ~Running(processes[i].name)

(* C7, amended.  While the PID file of a spec holds the PID of a live      *)
(* process of another executable, check_pid_file rejects the file (it      *)
(* yields no PID), and is_running(name) is true exactly when the PID       *)
(* recorded for name is alive or the scan of all processes finds one       *)
(* (by the executable path or, when set, the match string).                *)
C7_PidFileRejected ==
    \A i \in DOMAIN processes :
       LET c == processes[i] IN
       PidFileOfOtherExe(c)
          => /\ check_pid_file(procs, files, c.pid_file,
                               Get(c, "process_match", << >>),
                               c.executable_path) = None
             /\ Running(c.name)
                  <=> (\/ TrackedAlive(c.name)
                       \/ SomeExeIs(c.executable_path)
                       \/ /\ Has(c, "process_match")
                          /\ SomeCmdlineHolds(c.process_match))

\* The PID file is rejected and nothing else makes the name running:
\* is_running is false although the PID in the file is alive.
C7_Witness ==
    \E i \in DOMAIN processes :
       /\ PidFileOfOtherExe(processes[i])
       /\ ~Running(processes[i].name)
       /\ last.op \in {"list", "mon_start"}

-----------------------------------------------------------------------------
\* The monitor loop has to start the spec: it is enabled, not stopped by
\* hand and not running.
Down(p_config) ==
    /\ Get(p_config, "enabled", TRUE)
    /\ p_config.name \notin stopped_processes
    /\ ~Running(p_config.name)

(* C8.  Each step of the monitor loop handles the next spec of the list    *)
(* and moves on by one, back to the first after the last, whatever the     *)
(* step did (a start that failed included); the step calls start_process   *)
(* for a spec that is enabled, not manually stopped and not running; and a *)
(* spec that is in that condition gets a start attempt again and again     *)
(* for as long as it stays in it.                                          *)
C8_MonitorVisitsAll ==
    /\ [][ last'.op \in MonitorOps
             => /\ mon_i < Len(processes)
                /\ processes' = processes
                /\ last'.name = processes[mon_i + 1].name
                /\ mon_i' = IF mon_i + 1 = Len(processes) THEN 0 ELSE mon_i + 1
                /\ Down(processes[mon_i + 1]) <=> last'.op = "mon_start"
         ]_vars
    /\ \A i \in 1..2 :
         []<>(\/ ~(i \in DOMAIN processes /\ Down(processes[i]))
              \/ (last.op = "mon_start" /\ last.name = processes[i].name))

-----------------------------------------------------------------------------
(* C9.  A step of the monitor loop for a spec whose enabled flag is false  *)
(* skips it: it spawns nothing and leaves the launched map alone.  A       *)
(* direct start_process(name) for a disabled spec that is not running      *)
(* launches the spec's command: unless the OS refuses the launch (the call *)
(* then returns false and there is no new process), the process of the     *)
(* command runs under a PID that was free and that PID is recorded for     *)
(* name in the launched map.                                               *)
C9_DisabledSkippedByMonitorOnly ==
    [][ /\ (last'.op \in MonitorOps /\ ~Get(processes[mon_i + 1], "enabled", TRUE))
             => /\ last'.op = "mon_skip" /\ last'.spawned = None
                /\ procs' = procs
                /\ running_processes' = running_processes
        /\ \A n \in Names :
             (/\ last'.op = "start" /\ last'.name = n
              /\ Configured(n) /\ ~Get(ConfigOf(n), "enabled", TRUE)
              /\ ~Running(n))
                => \/ /\ last'.ret = FALSE /\ last'.spawned = None
                      /\ procs' = procs
                   \/ /\ last'.spawned \in FreePids(procs)
                      /\ procs'[last'.spawned] = Spawned(ConfigOf(n))
                      /\ running_processes'[n] = last'.spawned
      ]_vars

\* A direct start has spawned the process of a disabled spec.
C9_Witness ==
    \E n \in Names :
       /\ Called("start", n) /\ last.ret = TRUE
       /\ Configured(n) /\ ~Get(ConfigOf(n), "enabled", TRUE)
       /\ last.spawned # None
       /\ running_processes[n] = last.spawned
       /\ procs[last.spawned] = Spawned(ConfigOf(n))

-----------------------------------------------------------------------------
(* C10.  The listing get_all_statuses returns has one entry for each spec  *)
(* of the configuration, disabled ones included, in the order of the       *)
(* specs; the entry of a name is "Running" when is_running(name), else     *)
(* "Stopped (Manual)" when the name is in the manually-stopped set, else   *)
(* "Stopped".                                                              *)
C10_StatusListing ==
    last.op = "list"
       => /\ Len(last.statuses) = Len(processes)
          /\ \A i \in DOMAIN processes :
               LET name == processes[i].name IN
               /\ last.statuses[i][1] = name
               /\ last.statuses[i][2] =
                    IF Running(name) THEN "Running"
                    ELSE IF name \in stopped_processes THEN "Stopped (Manual)"
                    ELSE "Stopped"

\* A listing shows "Running" for a name that is in the manually-stopped
\* set, next to an entry for another spec.
C10_Witness ==
    /\ last.op = "list"
    /\ Len(last.statuses) = 2
    /\ \E i \in DOMAIN last.statuses :
         /\ last.statuses[i][2] = "Running"
         /\ last.statuses[i][1] \in stopped_processes

-----------------------------------------------------------------------------
\* The PID launched for name, if any, and the PID a lookup by the spec of
\* name finds now, if any.
Candidates(n) ==
    (IF Tracked(running_processes, n) THEN {running_processes[n]} ELSE {})
    \cup (IF Configured(n) /\ Lookup(procs, files, ConfigOf(n)) # None
          THEN {Lookup(procs, files, ConfigOf(n))}
          ELSE {})

(* C11.  A stop call tries to terminate exactly the PID launched for the   *)
(* name and the PID a fresh lookup finds.  Each candidate is handled on    *)
(* its own: one whose termination goes through is gone after the call      *)
(* whatever happened to the other, and no other process is touched.  The   *)
(* call returns false when there is no candidate, and true when some       *)
(* candidate was terminated or was found already gone.                     *)
C11_StopCandidates ==
    [][ \A n \in Names :
          (last'.op \in StopOps /\ last'.name = n)
             => /\ \A pid \in Pids :
                     last'.kill[pid] # "none" <=> pid \in Candidates(n)
                /\ \A pid \in Pids :
                     procs'[pid] = IF last'.kill[pid] = "killed" THEN NoProc
                                   ELSE procs[pid]
                /\ Candidates(n) = {} => last'.ret = FALSE
                /\ (\E pid \in Candidates(n) :
                       last'.kill[pid] \in {"killed", "gone"})
                      => last'.ret = TRUE
      ]_vars

\* A stop call had two candidates; the termination of the first failed and
\* the second was terminated.
C11_Witness ==
    /\ last.op = "stop" /\ last.ret = TRUE
    /\ \E p, q \in Pids :
         /\ p < q
         /\ last.kill[p] = "error" /\ procs[p] # NoProc
         /\ last.kill[q] = "killed" /\ procs[q] = NoProc

-----------------------------------------------------------------------------
(* C12.  The stop step of a restart of a name for which nothing is         *)
(* launched or found returns false and ends no process, and the restart    *)
(* goes on: its start step is the only step that ends it.  The start step  *)
(* for a configured name that is not running launches the spec's command:  *)
(* the new process is recorded in the launched map and the name is not in  *)
(* the manually-stopped set; the step returns true, and returns false only *)
(* when the OS refused the launch or the PID file could not be written.    *)
C12_RestartNeverStarted ==
    [][ \A n \in Names :
          /\ (last'.op = "restart_stop" /\ last'.name = n /\ Candidates(n) = {})
                => /\ last'.ret = FALSE
                   /\ procs' = procs
                   /\ restarting' = n
          /\ (restarting = n /\ restarting' # n)
                => (last'.op = "restart_start" /\ last'.name = n)
          /\ (last'.op = "restart_start" /\ last'.name = n
              /\ Configured(n) /\ ~Running(n))
                => /\ n \notin stopped_processes'
                   /\ \/ /\ last'.spawned = None
                         /\ last'.ret = FALSE /\ procs' = procs
                      \/ /\ last'.spawned \in FreePids(procs)
                         /\ procs'[last'.spawned] = Spawned(ConfigOf(n))
                         /\ running_processes'[n] = last'.spawned
                         /\ \/ last'.ret = TRUE
                            \/ /\ Has(ConfigOf(n), "pid_file")
                               /\ files' = files
      ]_vars

\* The start step of a restart has launched the only process of the host
\* and returned true: nothing was running for the name before.
C12_Witness ==
    \E n \in Names :
       /\ Called("restart_start", n) /\ last.ret = TRUE
       /\ last.spawned # None
       /\ running_processes[n] = last.spawned
       /\ n \notin stopped_processes
       /\ \A pid \in Pids \ {last.spawned} : procs[pid] = NoProc

-----------------------------------------------------------------------------
(* C13.  The spec list changes only in a reload step, which puts a whole   *)
(* configuration in its place (or leaves the list as it is when the file   *)
(* cannot be loaded); the step is not taken while the monitor loop is in   *)
(* a tick, so a tick and each call of start or stop work on one list; and  *)
(* the step leaves the launched map and the manually-stopped set as they   *)
(* are, entries of names without a spec included.                          *)
C13_ReloadAtomicFrame ==
    [][ /\ processes' # processes => last'.op = "reload"
        /\ last'.op = "reload"
             => /\ lock_owner = "none" /\ mon_i = 0
                /\ IF last'.ret THEN processes' \in Configs
                   ELSE processes' = processes
                /\ running_processes' = running_processes
                /\ stopped_processes' = stopped_processes
                /\ procs' = procs /\ files' = files
      ]_vars

\* A reload has replaced the specs and a name that has no spec any more
\* is left in the launched map, its process alive.
C13_Witness ==
    /\ last.op = "reload" /\ last.ret = TRUE
    /\ \E n \in Names : ~Configured(n) /\ TrackedAlive(n)

-----------------------------------------------------------------------------
(* C14.  The content of a PID file changes only in a start_process call    *)
(* (direct, of a restart or of the monitor loop) that spawned a process    *)
(* and returned true: the file is the pid_file of the spec of the name and *)
(* holds, after the call, the PID that the call recorded in the launched   *)
(* map.  Every such call for a spec with a pid_file leaves that PID in the *)
(* file.  No other step (stop, the stop step of a restart, a status        *)
(* listing, a reload, a monitor step that starts nothing) changes a file.  *)
C14_PidFileFrame ==
    [][ /\ \A f \in PidFiles :
             files'[f] # files[f]
                => /\ last'.op \in StartOps \cup {"mon_start"}
                   /\ last'.ret = TRUE
                   /\ last'.spawned # None
                   /\ Has(ConfigOf(last'.name), "pid_file")
                   /\ ConfigOf(last'.name).pid_file = f
                   /\ files'[f] = last'.spawned
                   /\ running_processes'[last'.name] = last'.spawned
        /\ \A n \in Names :
             (/\ last'.op \in StartOps \cup {"mon_start"} /\ last'.name = n
              /\ last'.ret = TRUE /\ last'.spawned # None
              /\ Has(ConfigOf(n), "pid_file"))
                => files'[ConfigOf(n).pid_file] = last'.spawned
      ]_vars

\* A stop call has terminated the process whose PID is in the PID file of
\* the spec, and the file still holds that PID.
C14_Witness ==
    \E n \in Names :
       /\ last.op \in StopOps /\ last.name = n
       /\ Has(ConfigOf(n), "pid_file")
       /\ files[ConfigOf(n).pid_file] # None
       /\ last.kill[files[ConfigOf(n).pid_file]] = "killed"
       /\ ~pid_exists(procs, files[ConfigOf(n).pid_file])

-----------------------------------------------------------------------------
(* C15.  The registry is read and written only by the holder of the lock:  *)
(* while the monitor loop holds it in a tick, every step that reads or     *)
(* writes the spec list, the launched map or the manually-stopped set is a *)
(* step of the monitor loop (the other steps are those of the OS).         *)
C15_LockDiscipline ==
    [][ lock_owner = "monitor" => last'.op \in MonitorOps \cup {"os"} ]_vars

-----------------------------------------------------------------------------
(* C16.  A restart is one operation under the lock: between its stop step  *)
(* and its start step no call of start, stop, restart or reload and no     *)
(* step of the monitor loop is taken (the OS and a status listing may      *)
(* act).                                                                   *)
C16_RestartSerialized ==
    [][ restarting # "" => last'.op \in {"restart_start", "os", "list"} ]_vars

-----------------------------------------------------------------------------
(* C17.  No deadlock.  Again and again the lock is free and no restart is  *)
(* between its two steps: a tick of the monitor loop, which holds the lock *)
(* and calls start_process under it, comes to its end and frees the lock,  *)
(* so that a caller that waits for the lock can take it, and a restart     *)
(* that has made its stop step gets the lock for its start step and ends.  *)
C17_NoDeadlock ==
    []<>(lock_owner = "none" /\ restarting = "")

\* The monitor loop has called start_process for the first spec while it
\* holds the lock, has gone on to the second, and a restart waits for the
\* lock to make its start step.
C17_Witness ==
    /\ lock_owner = "monitor"
    /\ mon_i = 1
    /\ last.op = "mon_start" /\ last.spawned # None
    /\ restarting # ""

-----------------------------------------------------------------------------
(* C18.  When the process of the PID recorded for a name has exited and    *)
(* another program's process takes that PID, is_running(name) is true only *)
(* if the lookup by the spec of the name finds a process: the recorded PID *)
(* alone does not make the name running.                                   *)
C18_StalePidReverified ==
    [][ \A n \in Names :
          (/\ last'.op = "os"
           /\ Tracked(running_processes, n)
           /\ ~pid_exists(procs, running_processes[n])
           /\ pid_exists(procs', running_processes[n]))
             => (Running(n)'
                   => /\ Configured(n)
                      /\ Lookup(procs', files', ConfigOf(n)) # None)
      ]_vars

-----------------------------------------------------------------------------
(* C19.  At most one instance per name: the supervisor does not spawn a    *)
(* process for a name in the step that follows a step in which it spawned  *)
(* one for the same name (that process is alive and no stop has been       *)
(* called in between).                                                     *)
C19_OneInstance ==
    [][ \A n \in Names :
          ~ (/\ last.name = n /\ last.spawned # None
             /\ pid_exists(procs, last.spawned)
             /\ last'.name = n /\ last'.spawned # None)
      ]_vars

-----------------------------------------------------------------------------
(* C20.  stop_process(name) signals only processes that belong to the      *)
(* name: a process of another program that has just been started (by       *)
(* somebody else, under whatever PID) is signaled by the stop call that    *)
(* follows only if it passes the identity checks of the spec of the name.  *)
C20_StopOnlyOwn ==
    [][ \A n \in Names :
          (/\ last.op = "os" /\ last.spawned # None
           /\ last'.op \in StopOps /\ last'.name = n
           /\ last'.kill[last.spawned] \notin {"none", "gone"})
             => /\ Configured(n)
                /\ \/ Lookup(procs, files, ConfigOf(n)) = last.spawned
                   \/ ScanHit(procs[last.spawned],
                              Get(ConfigOf(n), "process_match", << >>),
                              Get(ConfigOf(n), "executable_path", << >>))
      ]_vars

=============================================================================
